---- MODULE Spec2Model ----
(***************************************************************************)
(* Model of the LED&KEY (TM1638) driver of src/embedded/src/led_and_key.rs *)
(*                                                                         *)
(* The driver is single-threaded and synchronous: every public operation   *)
(* runs to completion.  Each operation is therefore one action; the pin    *)
(* calls it makes, in order, are recorded in `log` (the wire trace of the  *)
(* last operation) and are fed, call by call, to a model of the peer chip. *)
(***************************************************************************)
EXTENDS Integers, Sequences, FiniteSets

VARIABLES
    log,          \* pin calls made by the last operation, in order
    constructed,  \* FALSE before new() has run
    stb,          \* level of the strobe output pin (0/1)
    clk,          \* level of the clock output pin (0/1)
    dio,          \* output latch of the bidirectional data pin (0/1)
    mode,         \* configuration of the data pin: "unconfigured", "output", "input"
    display,      \* field display: bool
    brightness,   \* field brightness: u8
    chip,         \* the peer: display memory, address pointer, framing state
    lastOp,       \* the last public operation and its arguments
    repeated,     \* the operation before it was the same function
    data,         \* the u32 the last operation returned (scan_keys)
    keys_array,   \* the [bool; 8] the last operation returned (def_pressed_keys)
    nops          \* operations the chip has seen, new() included

vars == <<log, constructed, stb, clk, dio, mode, display, brightness, chip,
          lastOp, repeated, data, keys_array, nops>>

(***************************************************************************)
(* Bounds of the model: how many of the listed inputs are drawn, and how   *)
(* many operations follow new() when the chip's memory is modelled.        *)
(***************************************************************************)
NumPayloads == 2
NumScanWords == 3
NumBrightness == 3
NumFills == 2
MaxOps == 2

(***************************************************************************)
(* mod instructions (the opcodes of the TM1638 command set)                *)
(***************************************************************************)
NULL == 0
BRIGHTNESS == 7
SET_DATA_INSTR == 64
DATA_WRITE_INSTR == 0
DATA_READ_INSTR == 2
SET_DISPLAY_CTRL_INSTR == 128
DISPLAY_ON_INSTR == 8
DISPLAY_OFF_INSTR == 0
SET_ADDRESS_INSTR == 192

(***************************************************************************)
(* Fixed-width integer arithmetic                                          *)
(***************************************************************************)
Pow2(n) == 2 ^ n

\* (x >> i) & 1
Bit(x, i) == (x \div Pow2(i)) % 2

RECURSIVE OrBits(_, _, _)
OrBits(a, b, w) ==
    IF w = 0 THEN 0
    ELSE (IF a % 2 = 1 \/ b % 2 = 1 THEN 1 ELSE 0)
         + 2 * OrBits(a \div 2, b \div 2, w - 1)

\* a | b on u8
Or8(a, b) == OrBits(a, b, 8)

\* a << n on u8: the bits shifted past bit 7 are lost
Shl8(a, n) == (a * Pow2(n)) % 256

\* A u32 is the vector of its 32 bits, bit 0 first.
Zero32 == [j \in 0..31 |-> 0]

\* byte as u32
AsU32(b) == [j \in 0..31 |-> IF j < 8 THEN Bit(b, j) ELSE 0]

\* x << n on u32
Shl32(x, n) == [j \in 0..31 |-> IF j >= n THEN x[j - n] ELSE 0]

\* x >> n on u32
Shr32(x, n) == [j \in 0..31 |-> IF j + n <= 31 THEN x[j + n] ELSE 0]

\* x | y on u32
Or32(x, y) == [j \in 0..31 |-> IF x[j] = 1 \/ y[j] = 1 THEN 1 ELSE 0]

\* x & 1 on u32
And1(x) == x[0]

(***************************************************************************)
(* Inputs                                                                  *)
(***************************************************************************)
PayloadList == <<165, 1, 255, 0>>
Payloads == {PayloadList[i] : i \in 1..NumPayloads}

\* The bytes the peer presents to the four read_byte() calls of one scan,
\* first byte first.
ScanWordList == <<
    <<17, 0, 0, 0>>, <<238, 16, 1, 255>>, <<0, 0, 0, 0>>,
    <<255, 255, 255, 255>>, <<16, 1, 0, 128>> >>
ScanWords == {ScanWordList[i] : i \in 1..NumScanWords}

\* set_brightness arguments: within 0..7 and past it
BrightnessList == <<5, 8, 255, 0, 7>>
BrightnessValues == {BrightnessList[i] : i \in 1..NumBrightness}

\* what every register of the display memory holds at power-up
FillList == <<255, 0, 170>>
Fills == {FillList[i] : i \in 1..NumFills}

\* set_segment_value and set_led_state positions: the ends and the middle of 0..7, and past it
Positions == {0, 3, 7, 8, 255}

AllFalse == [i \in 0..7 |-> FALSE]
AllTrue == [i \in 0..7 |-> TRUE]

\* the 32 levels the peer presents to the 32 samples of one scan, first sample first
Levels(w) == [j \in 1..32 |-> Bit(w[((j - 1) \div 8) + 1], (j - 1) % 8)]

(***************************************************************************)
(* The peer chip, as the protocol describes it: it latches one bit of the  *)
(* data line per clock rising edge while the strobe is low, takes the      *)
(* first byte after a strobe falling edge as a command and every later     *)
(* byte of the window as data for the auto-incrementing address pointer.   *)
(***************************************************************************)
\* strobe falling edge: a new window opens
ChipOpen(c) == [c EXCEPT !.first = TRUE, !.n = 0, !.sh = 0, !.rd = FALSE]

\* strobe rising edge: the window closes, a partial byte is dropped
ChipClose(c) == [c EXCEPT !.n = 0, !.sh = 0, !.rd = FALSE]

\* a whole byte b has arrived
ChipByte(c, b) ==
    IF c.first
    THEN [c EXCEPT !.first = FALSE,
                   !.addr = IF b \div 64 = 3 THEN b % 16 ELSE @,
                   !.rd = (b \div 64 = 1 /\ Bit(b, 1) = 1)]
    ELSE [c EXCEPT !.regs[c.addr] = b, !.addr = (c.addr + 1) % 16]

\* clock rising edge inside a window, the data line at `level`
ChipClock(c, level) ==
    IF c.rd \/ ~c.present THEN c
    ELSE IF c.n < 7
         THEN [c EXCEPT !.sh = @ + level * Pow2(c.n), !.n = @ + 1]
         ELSE ChipByte([c EXCEPT !.sh = 0, !.n = 0], c.sh + level * Pow2(c.n))

(***************************************************************************)
(* The pins (embassy_stm32::gpio Output and Flex).  `s` is the driver with *)
(* its pins, the peer behind them, the levels `rx` the peer will present   *)
(* to the next samples, and the value `ret` of the last read.  `fn` names  *)
(* the driver function that makes the call.                                *)
(***************************************************************************)
\* the level on the data line: the driver's while it drives, else the peer's
\* (the pull-up's when the chip is not answering a read command, or when nothing
\* is presented)
Line(s) ==
    IF s.mode = "output" THEN s.dio
    ELSE IF s.chip.present /\ ~s.chip.rd THEN 1
    ELSE IF s.rx # <<>> THEN Head(s.rx) ELSE 1

Logged(s, pin, call, fn, edge) ==
    [s EXCEPT !.log = Append(@, [pin |-> pin, call |-> call, fn |-> fn, edge |-> edge,
                                 stb |-> s.stb, clk |-> s.clk, dio |-> s.dio,
                                 mode |-> s.mode,
                                 sample |-> IF call = "is_high" THEN s.ret ELSE 0])]

stb_set_low(s, fn) ==
    IF s.stb = 1
    THEN Logged([s EXCEPT !.stb = 0, !.chip = ChipOpen(@)], "stb", "set_low", fn, "fall")
    ELSE Logged(s, "stb", "set_low", fn, "none")

stb_set_high(s, fn) ==
    IF s.stb = 0
    THEN Logged([s EXCEPT !.stb = 1, !.chip = ChipClose(@)], "stb", "set_high", fn, "rise")
    ELSE Logged(s, "stb", "set_high", fn, "none")

clk_set_low(s, fn) ==
    Logged([s EXCEPT !.clk = 0], "clk", "set_low", fn,
           IF s.clk = 1 THEN "fall" ELSE "none")

clk_set_high(s, fn) ==
    IF s.clk = 0
    THEN Logged([s EXCEPT !.clk = 1,
                          !.chip = IF s.stb = 0 THEN ChipClock(@, Line(s)) ELSE @],
                "clk", "set_high", fn, "rise")
    ELSE Logged(s, "clk", "set_high", fn, "none")

dio_set_low(s, fn) ==
    Logged([s EXCEPT !.dio = 0], "dio", "set_low", fn,
           IF s.dio = 1 THEN "fall" ELSE "none")

dio_set_high(s, fn) ==
    Logged([s EXCEPT !.dio = 1], "dio", "set_high", fn,
           IF s.dio = 0 THEN "rise" ELSE "none")

dio_set_as_output(s, fn) ==
    Logged([s EXCEPT !.mode = "output"], "dio", "set_as_output", fn, "none")

dio_set_as_input(s, fn) ==
    Logged([s EXCEPT !.mode = "input"], "dio", "set_as_input", fn, "none")

\* is_high(): the sample is left in ret, the level sampled is consumed
dio_is_high(s, fn) ==
    Logged([s EXCEPT !.ret = Line(s),
                     !.rx = IF s.mode # "output" /\ @ # <<>> THEN Tail(@) ELSE @],
           "dio", "is_high", fn, "none")

(***************************************************************************)
(* The driver.  Every function is the sequence of the statements it        *)
(* executes, in order: pin calls, assignments to the fields of self and to *)
(* its locals.  No statement of the driver branches on a value read from   *)
(* the pins, so the sequence is fixed by the arguments and the fields.     *)
(***************************************************************************)
St(pin, call, fn, arg) == [pin |-> pin, call |-> call, fn |-> fn, arg |-> arg]

\* write_byte setting the data line after the rising clock edge
RECURSIVE write_byte_loop_late(_, _)
write_byte_loop_late(byte, i) ==
    IF i = 8 THEN <<>>
    ELSE << St("clk", "set_low", "write_byte", 0),
            St("clk", "set_high", "write_byte", 0),
            IF Bit(byte, i) = 0 THEN St("dio", "set_low", "write_byte", 0)
                                ELSE St("dio", "set_high", "write_byte", 0) >>
         \o write_byte_loop_late(byte, i + 1)

RECURSIVE write_byte_loop(_, _)
write_byte_loop(byte, i) ==
    IF i = 8 THEN <<>>
    ELSE << St("clk", "set_low", "write_byte", 0),
            IF Bit(byte, i) = 0 THEN St("dio", "set_low", "write_byte", 0)
                                ELSE St("dio", "set_high", "write_byte", 0),
            St("clk", "set_high", "write_byte", 0) >>
         \o write_byte_loop(byte, i + 1)

\* fn write_byte(&mut self, byte: u8)
write_byte(byte) == write_byte_loop(byte, 0)

RECURSIVE read_byte_loop(_)
read_byte_loop(i) ==
    IF i = 8 THEN <<>>
    ELSE << St("clk", "set_low", "read_byte", 0),
            St("clk", "set_high", "read_byte", 0),
            St("dio", "is_high", "read_byte", i) >>
         \o read_byte_loop(i + 1)

\* read_byte with the data pin left in input mode
read_byte_stays_input ==
    << St("dio", "set_as_input", "read_byte", 0),
       St("local", "byte = 0", "read_byte", 0) >>
    \o read_byte_loop(0)

\* read_byte sampling without releasing the data pin
read_byte_samples_driven ==
    << St("local", "byte = 0", "read_byte", 0) >>
    \o read_byte_loop(0)
    \o << St("dio", "set_as_output", "read_byte", 0) >>

\* fn read_byte(&mut self) -> u8
read_byte ==
    << St("dio", "set_as_input", "read_byte", 0),
       St("local", "byte = 0", "read_byte", 0) >>
    \o read_byte_loop(0)
    \o << St("dio", "set_as_output", "read_byte", 0) >>

\* fn push_instruction(&mut self, instruction: u8)
push_instruction(instruction) ==
    << St("stb", "set_low", "push_instruction", 0) >>
    \o write_byte(instruction)
    \o << St("stb", "set_high", "push_instruction", 0) >>

\* fn push_address_instr(&mut self, address: u8)
push_address_instr(address) == write_byte(Or8(SET_ADDRESS_INSTR, address))

\* fn push_data_write_instr(&mut self)
push_data_write_instr == push_instruction(Or8(SET_DATA_INSTR, DATA_WRITE_INSTR))

\* push_display_ctrl_instr with the on and off bits exchanged
push_display_ctrl_instr_swapped(self) ==
    LET display_instr == IF self.display THEN DISPLAY_OFF_INSTR ELSE DISPLAY_ON_INSTR
    IN << St("stb", "set_high", "push_display_ctrl_instr", 0),
          St("dio", "set_low", "push_display_ctrl_instr", 0),
          St("clk", "set_low", "push_display_ctrl_instr", 0) >>
       \o push_instruction(Or8(Or8(SET_DISPLAY_CTRL_INSTR, display_instr),
                               self.brightness))

\* push_display_ctrl_instr raising the clock before it opens the window
push_display_ctrl_instr_clk_high(self) ==
    LET display_instr == IF self.display THEN DISPLAY_ON_INSTR ELSE DISPLAY_OFF_INSTR
    IN << St("stb", "set_high", "push_display_ctrl_instr", 0),
          St("dio", "set_low", "push_display_ctrl_instr", 0),
          St("clk", "set_high", "push_display_ctrl_instr", 0) >>
       \o push_instruction(Or8(Or8(SET_DISPLAY_CTRL_INSTR, display_instr),
                               self.brightness))

\* fn push_display_ctrl_instr(&mut self)
push_display_ctrl_instr(self) ==
    LET display_instr == IF self.display THEN DISPLAY_ON_INSTR ELSE DISPLAY_OFF_INSTR
    IN << St("stb", "set_high", "push_display_ctrl_instr", 0),
          St("dio", "set_low", "push_display_ctrl_instr", 0),
          St("clk", "set_low", "push_display_ctrl_instr", 0) >>
       \o push_instruction(Or8(Or8(SET_DISPLAY_CTRL_INSTR, display_instr),
                               self.brightness))

\* fn write(&mut self, position: u8, data: u8)
write(position, byte) ==
    push_data_write_instr
    \o << St("stb", "set_low", "write", 0) >>
    \o push_address_instr(position)
    \o write_byte(byte)
    \o << St("stb", "set_high", "write", 0) >>

RECURSIVE cleanup_loop(_)
cleanup_loop(i) ==
    IF i = 15 THEN <<>> ELSE write_byte(NULL) \o cleanup_loop(i + 1)

\* pub fn cleanup(&mut self)
cleanup ==
    push_data_write_instr
    \o << St("stb", "set_low", "cleanup", 0) >>
    \o push_address_instr(NULL)
    \o cleanup_loop(0)
    \o << St("stb", "set_low", "cleanup", 0) >>

\* new clearing the registers before it sends the display control instruction
new_cleanup_first ==
    << St("self", "display", "new", TRUE),
       St("self", "brightness", "new", BRIGHTNESS),
       St("stb", "set_high", "new", 0),
       St("dio", "set_low", "new", 0),
       St("clk", "set_low", "new", 0),
       St("dio", "set_as_output", "new", 0) >>
    \o cleanup
    \o push_display_ctrl_instr([display |-> TRUE, brightness |-> BRIGHTNESS])

\* pub fn new(stb, clk, dio), from the pins as Output::new and Flex::new leave them
new ==
    << St("self", "display", "new", TRUE),
       St("self", "brightness", "new", BRIGHTNESS),
       St("stb", "set_high", "new", 0),
       St("dio", "set_low", "new", 0),
       St("clk", "set_low", "new", 0),
       St("dio", "set_as_output", "new", 0) >>
    \o push_display_ctrl_instr([display |-> TRUE, brightness |-> BRIGHTNESS])
    \o cleanup

\* pub fn display_on(&mut self)
display_on(self) ==
    << St("self", "display", "display_on", TRUE) >>
    \o push_display_ctrl_instr([self EXCEPT !.display = TRUE])

\* display_off flipping the flag instead of clearing it
display_off_toggle(self) ==
    << St("self", "display", "display_off", ~self.display) >>
    \o push_display_ctrl_instr([self EXCEPT !.display = ~self.display])

\* pub fn display_off(&mut self)
display_off(self) ==
    << St("self", "display", "display_off", FALSE) >>
    \o push_display_ctrl_instr([self EXCEPT !.display = FALSE])

\* pub fn set_brightness(&mut self, value: u8)
set_brightness(self, value) ==
    << St("self", "brightness", "set_brightness", value) >>
    \o push_display_ctrl_instr([self EXCEPT !.brightness = value])

\* set_segment_value without the shift of the position
set_segment_value_unshifted(position, value) == write(position, value)

\* pub fn set_segment_value(&mut self, position: u8, value: u8)
set_segment_value(position, value) == write(Shl8(position, 1), value)

\* pub fn set_led_state(&mut self, position: u8, state: u8)
set_led_state(position, state) == write(Shl8(position, 1) + 1, state)

RECURSIVE scan_keys_loop(_)
scan_keys_loop(i) ==
    IF i = 4 THEN <<>>
    ELSE read_byte
         \o << St("local", "data |= byte << i * 8", "scan_keys", i) >>
         \o scan_keys_loop(i + 1)

\* pub fn scan_keys(&mut self) -> u32
scan_keys ==
    << St("stb", "set_low", "scan_keys", 0) >>
    \o write_byte(Or8(SET_DATA_INSTR, DATA_READ_INSTR))
    \o << St("local", "data = 0", "scan_keys", 0) >>
    \o scan_keys_loop(0)
    \o << St("stb", "set_high", "scan_keys", 0) >>

RECURSIVE def_pressed_keys_loop(_)
def_pressed_keys_loop(i) ==
    IF i = 4 THEN <<>>
    ELSE << St("local", "keys_array[i]", "def_pressed_keys", i),
            St("local", "keys_array[i + 4]", "def_pressed_keys", i) >>
         \o def_pressed_keys_loop(i + 1)

\* pub fn def_pressed_keys(&mut self, keys_array: &mut [bool; 8]) -> &mut [bool; 8]
def_pressed_keys == scan_keys \o def_pressed_keys_loop(0)

(***************************************************************************)
(* Execution of one statement on s: the pins and the peer behind them, the *)
(* fields of self, the locals byte, data and keys_array.                   *)
(***************************************************************************)
\* the sample of pulse i stored at bit 7 - i
sample_bit_msb_first(s, i) ==
    LET s1 == dio_is_high(s, "read_byte")
    IN IF s1.ret = 1 THEN [s1 EXCEPT !.byte = Or8(@, Shl8(1, 7 - i))] ELSE s1

\* if self.dio.is_high() { byte |= 1 << i; }
sample_bit(s, i) ==
    LET s1 == dio_is_high(s, "read_byte")
    IN IF s1.ret = 1 THEN [s1 EXCEPT !.byte = Or8(@, Shl8(1, i))] ELSE s1

\* the byte of read i placed at bit 4i
or_data_nibble(s, i) == [s EXCEPT !.data = Or32(@, Shl32(AsU32(s.byte), i * 4))]

\* data |= (self.read_byte() as u32) << (i * 8)
or_data(s, i) == [s EXCEPT !.data = Or32(@, Shl32(AsU32(s.byte), i * 8))]

\* keys_array[i] = if (data >> (8 * i) & 1) == 1 { true } else { false }
key_low(s, i) == [s EXCEPT !.keys[i] = (And1(Shr32(s.data, 8 * i)) = 1)]

\* keys_array[i + 4] taken from bit 8i + 5
key_high_next_bit(s, i) == [s EXCEPT !.keys[i + 4] = (And1(Shr32(s.data, 8 * i + 5)) = 1)]

\* keys_array[i + 4] = if (data >> (8 * i + 4) & 1) == 1 { true } else { false }
key_high(s, i) == [s EXCEPT !.keys[i + 4] = (And1(Shr32(s.data, 8 * i + 4)) = 1)]

ExecDio(s, st) ==
    CASE st.call = "set_low" -> dio_set_low(s, st.fn)
      [] st.call = "set_high" -> dio_set_high(s, st.fn)
      [] st.call = "set_as_output" -> dio_set_as_output(s, st.fn)
      [] st.call = "set_as_input" -> dio_set_as_input(s, st.fn)
      [] st.call = "is_high" -> sample_bit(s, st.arg)

ExecLocal(s, st) ==
    CASE st.call = "byte = 0" -> [s EXCEPT !.byte = 0]
      [] st.call = "data = 0" -> [s EXCEPT !.data = Zero32]
      [] st.call = "data |= byte << i * 8" -> or_data(s, st.arg)
      [] st.call = "keys_array[i]" -> key_low(s, st.arg)
      [] st.call = "keys_array[i + 4]" -> key_high(s, st.arg)

Exec(s, st) ==
    CASE st.pin = "stb" ->
            IF st.call = "set_low" THEN stb_set_low(s, st.fn) ELSE stb_set_high(s, st.fn)
      [] st.pin = "clk" ->
            IF st.call = "set_low" THEN clk_set_low(s, st.fn) ELSE clk_set_high(s, st.fn)
      [] st.pin = "dio" -> ExecDio(s, st)
      [] st.pin = "self" ->
            IF st.call = "display" THEN [s EXCEPT !.display = st.arg]
                                   ELSE [s EXCEPT !.brightness = st.arg]
      [] st.pin = "local" -> ExecLocal(s, st)

\* the statements body[lo..hi] executed in order
RECURSIVE RunRange(_, _, _, _)
RunRange(s, body, lo, hi) ==
    IF lo > hi THEN s
    ELSE IF lo = hi THEN Exec(s, body[lo])
    ELSE LET mid == (lo + hi) \div 2
             first == RunRange(s, body, lo, mid)
         \* the test makes TLC compute the first half before it enters the second
         IN IF first.stb \in {0, 1} THEN RunRange(first, body, mid + 1, hi) ELSE first

Run(s, body) == RunRange(s, body, 1, Len(body))

(***************************************************************************)
(* What a logic analyser on the three lines reads from a log: the strobe   *)
(* edges, each byte clocked out by the driver (8 rising clock edges with   *)
(* the data pin driven, bit 0 first), each byte sampled by the driver (8   *)
(* is_high() samples, bit 0 first), and what is left of a byte cut short   *)
(* by a strobe edge.                                                       *)
(***************************************************************************)
Tok(k, v) == [k |-> k, v |-> v]

Flush(a) ==
    IF a.n = 0 /\ a.m = 0 THEN a
    ELSE [a EXCEPT !.out = Append(@, Tok("partial", a.n + a.m)),
                   !.n = 0, !.sh = 0, !.m = 0, !.rsh = 0]

WireStep(a, e) ==
    IF e.pin = "stb" /\ e.edge \in {"fall", "rise"}
    THEN [Flush(a) EXCEPT !.out = Append(@, Tok(e.edge, 0))]
    ELSE IF e.pin = "clk" /\ e.edge = "rise" /\ e.mode = "output"
    THEN IF a.n < 7
         THEN [a EXCEPT !.sh = @ + e.dio * Pow2(a.n), !.n = @ + 1]
         ELSE [a EXCEPT !.out = Append(@, Tok("tx", a.sh + e.dio * Pow2(a.n))),
                        !.sh = 0, !.n = 0]
    ELSE IF e.call = "is_high"
    THEN IF a.m < 7
         THEN [a EXCEPT !.rsh = @ + e.sample * Pow2(a.m), !.m = @ + 1]
         ELSE [a EXCEPT !.out = Append(@, Tok("rx", a.rsh + e.sample * Pow2(a.m))),
                        !.rsh = 0, !.m = 0]
    ELSE a

RECURSIVE WireFold(_, _, _, _)
WireFold(a, l, lo, hi) ==
    IF lo > hi THEN a
    ELSE IF lo = hi THEN WireStep(a, l[lo])
    ELSE LET mid == (lo + hi) \div 2
             first == WireFold(a, l, lo, mid)
         \* the test makes TLC compute the first half before it enters the second
         IN IF first.n \in 0..7 THEN WireFold(first, l, mid + 1, hi) ELSE first

Wire(l) ==
    Flush(WireFold([out |-> <<>>, n |-> 0, sh |-> 0, m |-> 0, rsh |-> 0],
                   l, 1, Len(l))).out

\* the bytes among the tokens, in order
Tx(w) == SelectSeq(w, LAMBDA x : x.k = "tx")

(***************************************************************************)
(* State machine                                                           *)
(***************************************************************************)
NoOp == [name |-> "none", p |-> 0, v |-> 0, arr |-> AllFalse]
Op(name, p, v) == [name |-> name, p |-> p, v |-> v, arr |-> AllFalse]

\* the peer at power-up, every register holding f, the strobe seen driven low
Chip(present, f) ==
    [present |-> present, regs |-> [a \in 0..15 |-> f], addr |-> 0, first |-> TRUE,
     n |-> 0, sh |-> 0, rd |-> FALSE]

\* Output::new(_, Level::Low, _) for clk and stb; Flex::new(dio) leaves the data pin
\* unconfigured, its output latch at either level.
InitDriver ==
    /\ constructed = FALSE
    /\ stb = 0
    /\ clk = 0
    /\ dio \in {0, 1}
    /\ mode = "unconfigured"
    /\ display = TRUE
    /\ brightness = BRIGHTNESS
    /\ log = <<>>
    /\ lastOp = NoOp
    /\ repeated = FALSE
    /\ data = Zero32
    /\ keys_array = AllFalse
    /\ nops = 0

\* the driver alone: what is behind the pins is left out
Init == InitDriver /\ chip = Chip(FALSE, 0)

\* the driver and the chip, its memory holding anything
InitChip == InitDriver /\ \E f \in Fills : chip = Chip(TRUE, f)

\* the fields of self
Fields == [display |-> display, brightness |-> brightness]

\* the driver as the next operation finds it, the peer about to present levels rx,
\* the caller's array holding keys
Self(rx, keys) ==
    [stb |-> stb, clk |-> clk, dio |-> dio, mode |-> mode, display |-> display,
     brightness |-> brightness, chip |-> chip, log |-> <<>>, rx |-> rx, ret |-> 0,
     byte |-> 0, data |-> data, keys |-> keys]

\* the state an operation leaves
Return(s, op) ==
    /\ constructed' = TRUE
    /\ stb' = s.stb
    /\ clk' = s.clk
    /\ dio' = s.dio
    /\ mode' = s.mode
    /\ display' = s.display
    /\ brightness' = s.brightness
    /\ chip' = s.chip
    /\ log' = s.log
    /\ lastOp' = op
    /\ repeated' = (lastOp.name = op.name)
    /\ data' = IF op.name \in {"scan_keys", "def_pressed_keys"} THEN s.data ELSE Zero32
    /\ keys_array' = IF op.name = "def_pressed_keys" THEN s.keys ELSE AllFalse
    /\ nops' = IF chip.present THEN nops + 1 ELSE nops

\* an operation on the constructed driver may be called
Callable == constructed /\ nops <= MaxOps

New ==
    /\ ~constructed
    /\ Return(Run(Self(<<>>, keys_array), new), Op("new", 0, 0))

DisplayOn ==
    /\ Callable
    /\ Return(Run(Self(<<>>, keys_array), display_on(Fields)), Op("display_on", 0, 0))

DisplayOff ==
    /\ Callable
    /\ Return(Run(Self(<<>>, keys_array), display_off(Fields)), Op("display_off", 0, 0))

Cleanup ==
    /\ Callable
    /\ Return(Run(Self(<<>>, keys_array), cleanup), Op("cleanup", 0, 0))

SetBrightness ==
    /\ Callable
    /\ \E value \in BrightnessValues :
          Return(Run(Self(<<>>, keys_array), set_brightness(Fields, value)),
                 Op("set_brightness", 0, value))

SetSegmentValue ==
    /\ Callable
    /\ \E position \in Positions, value \in Payloads :
          Return(Run(Self(<<>>, keys_array), set_segment_value(position, value)),
                 Op("set_segment_value", position, value))

SetLedState ==
    /\ Callable
    /\ \E position \in Positions, state \in Payloads :
          Return(Run(Self(<<>>, keys_array), set_led_state(position, state)),
                 Op("set_led_state", position, state))

ScanKeys ==
    /\ Callable
    /\ \E w \in ScanWords :
          Return(Run(Self(Levels(w), keys_array), scan_keys), Op("scan_keys", 0, 0))

DefPressedKeys ==
    /\ Callable
    /\ \E w \in ScanWords, before \in {AllFalse, AllTrue} :
          Return(Run(Self(Levels(w), before), def_pressed_keys),
                 [Op("def_pressed_keys", 0, 0) EXCEPT !.arr = before])

Next ==
    \/ New
    \/ DisplayOn
    \/ DisplayOff
    \/ Cleanup
    \/ SetBrightness
    \/ SetSegmentValue
    \/ SetLedState
    \/ ScanKeys
    \/ DefPressedKeys

\* the driver alone, any sequence of operations
Spec == Init /\ [][Next]_vars

\* the driver and the chip, new() and MaxOps operations after it
SpecChip == InitChip /\ [][Next]_vars

(***************************************************************************)
(* Loopback of the byte transport: a byte goes out through write_byte and  *)
(* the levels the data line had at the 8 rising clock edges come back, in  *)
(* the same order, as the 8 samples of read_byte.                          *)
(***************************************************************************)
Bytes == 0..255

\* the data levels driven at the rising clock edges of a log, first edge first
Driven(l) ==
    LET edges == SelectSeq(l, LAMBDA e : e.pin = "clk" /\ e.edge = "rise"
                                         /\ e.mode = "output")
    IN [j \in DOMAIN edges |-> edges[j].dio]

\* the pins as new() leaves them and a byte to send
InitLoopback ==
    /\ constructed = TRUE
    /\ stb = 0
    /\ clk = 1
    /\ dio = 0
    /\ mode = "output"
    /\ display = TRUE
    /\ brightness = BRIGHTNESS
    /\ chip = Chip(FALSE, 0)
    /\ log = <<>>
    /\ \E b \in Bytes : lastOp = Op("byte", b, 0)
    /\ repeated = FALSE
    /\ data = Zero32
    /\ keys_array = AllFalse
    /\ nops = 0

\* lastOp.p is the byte sent, lastOp.v the byte read back
Loopback ==
    /\ lastOp.name = "byte"
    /\ LET sent == Run(Self(<<>>, keys_array), write_byte(lastOp.p))
           back == Run([sent EXCEPT !.rx = Driven(sent.log)], read_byte)
       IN Return(back, Op("loopback", lastOp.p, back.byte))

SpecLoopback == InitLoopback /\ [][Loopback]_vars

(***************************************************************************)
(* Observations on the log of the last operation                           *)
(***************************************************************************)
\* the index of the last falling strobe edge among w[1..i], 0 if none
RECURSIVE LastFall(_, _)
LastFall(w, i) ==
    IF i = 0 THEN 0 ELSE IF w[i].k = "fall" THEN i ELSE LastFall(w, i - 1)

\* the tokens after the last falling strobe edge
LastWindow(w) == SubSeq(w, LastFall(w, Len(w)) + 1, Len(w))

\* n zero bytes clocked out
Zeros(n) == [i \in 1..n |-> Tok("tx", 0)]

\* the pin calls of a log, and those of a sequence of statements
Calls(l) == [i \in DOMAIN l |-> <<l[i].pin, l[i].call>>]
PinCalls(body) == Calls(SelectSeq(body, LAMBDA st : st.pin \in {"stb", "clk", "dio"}))

\* the samples is_high() returned, in order
Samples(l) ==
    LET reads == SelectSeq(l, LAMBDA e : e.call = "is_high")
    IN [j \in DOMAIN reads |-> reads[j].sample]

\* one instruction in a window of its own, after the strobe is released if it was low
Standalone(w, opcode) ==
    \/ w = << Tok("fall", 0), Tok("tx", opcode), Tok("rise", 0) >>
    \/ w = << Tok("rise", 0), Tok("fall", 0), Tok("tx", opcode), Tok("rise", 0) >>

\* the 32-bit word whose bytes are w[1] (low) to w[4] (high)
Word(w) == [i \in 0..31 |-> Bit(w[(i \div 8) + 1], i % 8)]

(***************************************************************************)
(* Properties                                                              *)
(***************************************************************************)
\* C1: after cleanup() returns (new() ends with it), its last strobe window held the
\* address byte for address 0 followed by 16 zero payload bytes, and all 16 display
\* registers of the chip are zero, whatever they held before.
C1_CleanupZeroesAllRegisters ==
    lastOp.name \in {"new", "cleanup"} =>
        /\ Tx(LastWindow(Wire(log))) = << Tok("tx", Or8(SET_ADDRESS_INSTR, 0)) >> \o Zeros(16)
        /\ \A a \in 0..15 : chip.regs[a] = 0

\* C2: whenever a public operation has returned, the strobe line is high.
C2_StrobeHighAtRest == constructed => stb = 1

\* C3: whenever a public operation has returned the data pin is in output mode; the pin
\* is in input mode only inside read_byte; a set_segment_value call, also one right
\* after scan_keys, makes all its pin calls with the data pin in output mode.
C3_DataPinOutputAtRest ==
    /\ constructed => mode = "output"
    /\ \A i \in DOMAIN log : log[i].mode = "input" => log[i].fn = "read_byte"
    /\ lastOp.name = "set_segment_value" => \A i \in DOMAIN log : log[i].mode = "output"

C3_ScanReturned ==
    /\ lastOp.name = "scan_keys"
    /\ mode = "output"
    /\ \E i \in DOMAIN log : log[i].call = "is_high" /\ log[i].mode = "input"

\* C4 as stated: in every operation, construction included, set_high()/set_low() are
\* called on the data pin only in output mode and is_high() only in input mode.
C4_PinCallsMatchMode ==
    \A i \in DOMAIN log :
        log[i].pin = "dio" =>
            /\ log[i].call \in {"set_high", "set_low"} => log[i].mode = "output"
            /\ log[i].call = "is_high" => log[i].mode = "input"

\* C4 amended: set_high()/set_low() are called on the data pin only in output mode and
\* is_high() only in input mode, except for the one set_low() that new() makes, as its
\* second pin call, on the still unconfigured pin before it calls set_as_output.
C4_PinCallsMatchModeOnceConfigured ==
    \A i \in DOMAIN log :
        log[i].pin = "dio" =>
            /\ log[i].call \in {"set_high", "set_low"} =>
                  \/ log[i].mode = "output"
                  \/ /\ lastOp.name = "new"
                     /\ i = 2
                     /\ log[i].call = "set_low"
                     /\ log[i].mode = "unconfigured"
            /\ log[i].call = "is_high" => log[i].mode = "input"

C4_NewPresetsLatch ==
    /\ lastOp.name = "new"
    /\ log[2].pin = "dio" /\ log[2].call = "set_low" /\ log[2].mode = "unconfigured"
    /\ log[4].call = "set_as_output"
    /\ \E i \in 5..Len(log) :
          log[i].pin = "dio" /\ log[i].call = "set_low" /\ log[i].mode = "output"

\* C5: for p in 0..7, set_segment_value(p, v) ends with one window holding the address
\* byte SET_ADDRESS | 2p then the payload v, and set_led_state(p, s) with one holding
\* SET_ADDRESS | (2p + 1) then s unchanged; segment addresses are even, LED addresses odd.
C5_WriteAddressAndPayload ==
    lastOp.name \in {"set_segment_value", "set_led_state"} /\ lastOp.p \in 0..7 =>
        LET win == LastWindow(Wire(log))
            odd == IF lastOp.name = "set_led_state" THEN 1 ELSE 0
        IN /\ win = << Tok("tx", Or8(SET_ADDRESS_INSTR, 2 * lastOp.p + odd)),
                       Tok("tx", lastOp.v), Tok("rise", 0) >>
           /\ win[1].v % 2 = odd
           /\ Len(Tx(Wire(log))) = 3

C5_LedSevenWritten ==
    /\ lastOp.name = "set_led_state"
    /\ lastOp.p = 7
    /\ lastOp.v = 165
    /\ Tx(Wire(log)) = << Tok("tx", 64), Tok("tx", 207), Tok("tx", 165) >>

\* the opcode of the display control instruction for a flag and a brightness
DisplayCtrl(flag, level) ==
    Or8(Or8(SET_DISPLAY_CTRL_INSTR, IF flag THEN DISPLAY_ON_INSTR ELSE DISPLAY_OFF_INSTR),
        level)

\* C6: display_on(), display_off() and set_brightness(k), k in 0..7, each emit exactly one
\* standalone display control instruction whose opcode is SET_DISPLAY_CTRL, or-ed with
\* DISPLAY_ON or DISPLAY_OFF as the display flag stands after the call, or-ed with the
\* brightness after the call; display_on/display_off set the flag and keep the
\* brightness, set_brightness(k) stores k and keeps the flag.
C6_DisplayCtrlStep ==
    LET op == lastOp'
        w == Wire(log')
    IN /\ op.name = "display_on" =>
             /\ display' = TRUE
             /\ brightness' = brightness
             /\ Standalone(w, DisplayCtrl(TRUE, brightness))
       /\ op.name = "display_off" =>
             /\ display' = FALSE
             /\ brightness' = brightness
             /\ Standalone(w, DisplayCtrl(FALSE, brightness))
       /\ op.name = "set_brightness" /\ op.v \in 0..7 =>
             /\ display' = display
             /\ brightness' = op.v
             /\ Standalone(w, DisplayCtrl(display, op.v))

C6_DisplayCtrlOpcode == [][C6_DisplayCtrlStep]_vars

C6_OffAtBrightnessFive ==
    /\ lastOp.name = "display_off"
    /\ brightness = 5
    /\ Wire(log) = << Tok("fall", 0), Tok("tx", 133), Tok("rise", 0) >>

\* C7: for every byte b in 0..255, the 8 levels write_byte(b) drives at the rising clock
\* edges are the bits of b, bit 0 first, and read_byte() fed these levels in the same
\* order returns b.
C7_LoopbackLossless ==
    lastOp.name = "loopback" =>
        /\ Driven(log) = [j \in 1..8 |-> Bit(lastOp.p, j - 1)]
        /\ Samples(log) = [j \in 1..8 |-> Bit(lastOp.p, j - 1)]
        /\ lastOp.v = lastOp.p

C7_ByteA5Returned ==
    /\ lastOp.name = "loopback"
    /\ lastOp.p = 165
    /\ lastOp.v = 165
    /\ Samples(log) = <<1, 0, 1, 0, 0, 1, 0, 1>>

\* C8: def_pressed_keys() on the scan word w writes all 8 entries of the array, whatever
\* it held: entry i is (bit 8i of w is 1) and entry i + 4 is (bit 8i + 4 of w is 1) for
\* i in 0..3, no other bit counts; w = 0x00000011 gives [T, F, F, F, T, F, F, F].
C8_KeysDecoded ==
    lastOp.name = "def_pressed_keys" =>
        /\ DOMAIN keys_array = 0..7
        /\ \A i \in 0..3 :
              /\ keys_array[i] = (data[8 * i] = 1)
              /\ keys_array[i + 4] = (data[8 * i + 4] = 1)
        /\ data = Word(<<17, 0, 0, 0>>) => keys_array = [i \in 0..7 |-> i \in {0, 4}]

C8_Word11OverAllTrue ==
    /\ lastOp.name = "def_pressed_keys"
    /\ lastOp.arr = AllTrue
    /\ data = Word(<<17, 0, 0, 0>>)
    /\ keys_array = [i \in 0..7 |-> i \in {0, 4}]

\* C9: new() makes, in this order, the pin calls stb.set_high, dio.set_low, clk.set_low,
\* dio.set_as_output, then those of push_display_ctrl_instr() (one window holding the
\* opcode for display on at brightness 7), then those of cleanup(); when it returns the
\* display flag is true and the brightness is 7.
C9_ConstructionSequence ==
    lastOp.name = "new" =>
        LET ctrl == PinCalls(push_display_ctrl_instr([display |-> TRUE, brightness |-> 7]))
        IN /\ Calls(log) = << <<"stb", "set_high">>, <<"dio", "set_low">>,
                              <<"clk", "set_low">>, <<"dio", "set_as_output">> >>
                           \o ctrl \o PinCalls(cleanup)
           /\ log[1].stb = 1 /\ log[2].dio = 0 /\ log[3].clk = 0 /\ log[4].mode = "output"
           /\ Wire(SubSeq(log, 5, 4 + Len(ctrl))) =
                 << Tok("fall", 0), Tok("tx", DisplayCtrl(TRUE, 7)), Tok("rise", 0) >>
           /\ display = TRUE
           /\ brightness = 7

C9_Constructed ==
    /\ lastOp.name = "new"
    /\ constructed
    /\ display = TRUE
    /\ brightness = 7
    /\ Tx(Wire(log))[1] = Tok("tx", 143)

\* C10: display_off() called right after display_off() puts the same opcode on the wire
\* as the first call and leaves the brightness and the flag as they were.
C10_DisplayOffStep ==
    lastOp.name = "display_off" /\ lastOp'.name = "display_off" =>
        /\ Tx(Wire(log')) = Tx(Wire(log))
        /\ Len(Tx(Wire(log'))) = 1
        /\ brightness' = brightness
        /\ display' = display

C10_DisplayOffIdempotent == [][C10_DisplayOffStep]_vars

C10_OffTwice ==
    /\ lastOp.name = "display_off"
    /\ repeated
    /\ brightness = 5
    /\ Tx(Wire(log)) = << Tok("tx", 133) >>

\* the display operations
DisplayOps == {"display_on", "display_off", "set_brightness"}

\* C11: the brightness field is within 0..7 in every state, and the display control
\* opcode a display operation emits carries nothing outside the 3-bit brightness field:
\* its high nibble is that of SET_DISPLAY_CTRL and its on/off bit equals the display flag.
C11_BrightnessInRange ==
    /\ brightness \in 0..7
    /\ lastOp.name \in DisplayOps =>
          LET opcode == Tx(Wire(log))[1].v
          IN /\ opcode \div 16 = SET_DISPLAY_CTRL_INSTR \div 16
             /\ Bit(opcode, 3) = (IF display THEN 1 ELSE 0)

\* the bytes sent as the first byte of a window opened in this log: the command bytes
CommandBytes(w) ==
    LET at == {i \in 2..Len(w) : w[i].k = "tx" /\ w[i - 1].k = "fall"}
    IN {w[i].v : i \in at}

\* the address byte of a write: the byte that opens its last window
AddressByte(w) == LastWindow(w)[1].v

\* C12: the address byte set_segment_value and set_led_state emit, for any position,
\* carries a register address within 0..15: it is SET_ADDRESS_INSTR plus 0..15.
C12_AddressInRange ==
    lastOp.name \in {"set_segment_value", "set_led_state"} =>
        AddressByte(Wire(log)) - SET_ADDRESS_INSTR \in 0..15

\* C13: the strobe is never driven low while it is already low, and no byte of an
\* operation is clocked out before the operation has made a falling strobe edge, that
\* is, into a window an earlier operation left open.
C13_WindowsNeverMerge ==
    /\ \A i \in DOMAIN log :
          ~(log[i].pin = "stb" /\ log[i].call = "set_low" /\ log[i].edge = "none")
    /\ constructed => Wire(log)[1].k # "tx"

\* C14: seen by the chip, set_segment_value(p, v) with p in 0..7 sets register 2p to v
\* and set_led_state(p, s) sets register 2p + 1 to s, and the other 15 registers keep
\* what they held, in whatever state the call is made.
C14_WriteStep ==
    lastOp'.name \in {"set_segment_value", "set_led_state"} /\ lastOp'.p \in 0..7 =>
        LET odd == IF lastOp'.name = "set_led_state" THEN 1 ELSE 0
        IN chip'.regs = [chip.regs EXCEPT ![2 * lastOp'.p + odd] = lastOp'.v]

C14_WriteSetsOneRegister == [][C14_WriteStep]_vars

\* the bytes of an operation that the chip, or the driver, takes for instructions: the
\* bytes that follow a strobe edge and the byte the operation starts with
Heads(w) ==
    LET at == {i \in 1..Len(w) : w[i].k = "tx" /\ (i = 1 \/ w[i - 1].k \in {"fall", "rise"})}
    IN {w[i].v : i \in at}

\* the class of an instruction byte: its two high bits
Class(b) == b \div 64

\* C15: display_on(), display_off() and set_brightness() put one byte on the wire, a
\* display control instruction, no address and no payload byte, and write no register;
\* set_segment_value, set_led_state, scan_keys, def_pressed_keys and cleanup leave the
\* display flag and the brightness as they were and send no display control instruction.
C15_FrameStep ==
    LET op == lastOp'
        w == Wire(log')
    IN /\ op.name \in DisplayOps =>
             /\ Len(Tx(w)) = 1
             /\ Class(Tx(w)[1].v) = Class(SET_DISPLAY_CTRL_INSTR)
             /\ chip'.regs = chip.regs
       /\ op.name \in {"set_segment_value", "set_led_state", "scan_keys",
                       "def_pressed_keys", "cleanup"} =>
             /\ display' = display
             /\ brightness' = brightness
             /\ \A b \in Heads(w) : Class(b) # Class(SET_DISPLAY_CTRL_INSTR)

C15_DisplayAndRegistersApart == [][C15_FrameStep]_vars

\* the rising clock edges of a log
Pulses(l) == Len(SelectSeq(l, LAMBDA e : e.pin = "clk" /\ e.edge = "rise"))

\* the values of a sequence of tokens
Values(w) == [i \in DOMAIN w |-> w[i].v]

\* the bytes sampled, in order
Rx(w) == SelectSeq(w, LAMBDA x : x.k = "rx")

Written(l) == SubSeq(l, 1, 24)

\* C17: write_byte(b) makes exactly 8 clock pulses; for i = 0..7 in order it calls
\* clk.set_low, then sets the data line to bit i of b, then calls clk.set_high; the data
\* line is set only while the clock is low and holds bit i of b at rising edge i.
C17_WriteByteClocking ==
    lastOp.name = "loopback" =>
        LET l == Written(log)
        IN /\ Len(log) >= 24
           /\ \A k \in 1..24 : l[k].fn = "write_byte"
           /\ \A k \in 25..Len(log) : log[k].fn # "write_byte"
           /\ Pulses(l) = 8
           /\ \A i \in 0..7 :
                 /\ <<l[3 * i + 1].pin, l[3 * i + 1].call>> = <<"clk", "set_low">>
                 /\ l[3 * i + 1].clk = 0
                 /\ l[3 * i + 2].pin = "dio"
                 /\ l[3 * i + 2].call = (IF Bit(lastOp.p, i) = 1 THEN "set_high" ELSE "set_low")
                 /\ l[3 * i + 2].dio = Bit(lastOp.p, i)
                 /\ l[3 * i + 2].clk = 0
                 /\ <<l[3 * i + 3].pin, l[3 * i + 3].call>> = <<"clk", "set_high">>
                 /\ l[3 * i + 3].edge = "rise"
                 /\ l[3 * i + 3].dio = Bit(lastOp.p, i)

C17_ByteA5Clocked ==
    /\ lastOp.name = "loopback"
    /\ lastOp.p = 165
    /\ Pulses(Written(log)) = 8
    /\ Driven(Written(log)) = <<1, 0, 1, 0, 0, 1, 0, 1>>

\* the strobe edges of a log, each with the number of rising clock edges since the
\* edge before it (or since the log began), and the rising clock edges after the last
EdgeStep(a, e) ==
    IF e.pin = "stb" /\ e.edge \in {"fall", "rise"}
    THEN [out |-> Append(a.out, [k |-> e.edge, n |-> a.n]), n |-> 0]
    ELSE IF e.pin = "clk" /\ e.edge = "rise" THEN [a EXCEPT !.n = @ + 1]
    ELSE a

RECURSIVE EdgeFold(_, _, _, _)
EdgeFold(a, l, lo, hi) ==
    IF lo > hi THEN a
    ELSE IF lo = hi THEN EdgeStep(a, l[lo])
    ELSE LET mid == (lo + hi) \div 2
             first == EdgeFold(a, l, lo, mid)
         \* the test makes TLC compute the first half before it enters the second
         IN IF first.n >= 0 THEN EdgeFold(first, l, mid + 1, hi) ELSE first

Edges(l) == EdgeFold([out |-> <<>>, n |-> 0], l, 1, Len(l))

\* C18: every rising clock edge happens while the strobe is low, and the rising clock
\* edges between a falling strobe edge and the next rising strobe edge are a positive
\* multiple of 8, also when the window is closed by a later operation than opened it.
C18_WholeBytesInWindows ==
    LET r == Edges(log)
    IN /\ \A i \in DOMAIN log :
             log[i].pin = "clk" /\ log[i].edge = "rise" => log[i].stb = 0
       /\ \A i \in DOMAIN r.out :
             /\ r.out[i].k = "fall" => r.out[i].n = 0
             /\ r.out[i].k = "rise" => r.out[i].n % 8 = 0 /\ (i > 1 => r.out[i].n > 0)
       /\ constructed /\ stb = 0 => r.n > 0 /\ r.n % 8 = 0
       /\ constructed /\ stb = 1 => r.n = 0

C18_WindowClosedByNextOperation ==
    /\ lastOp.name = "set_led_state"
    /\ Edges(log).out = << [k |-> "rise", n |-> 8], [k |-> "fall", n |-> 0],
                           [k |-> "rise", n |-> 16] >>

====
